---- MODULE Spec2Model ----
(***************************************************************************)
(* A model of the property-management backend: the relational store        *)
(* (users, properties, maintenance tickets, support tickets), the HTTP     *)
(* handlers of main.py and ticket_system.py, the Qube webhook, the email   *)
(* classifier and pipeline, and the inbox scanner.                         *)
(*                                                                         *)
(* Optional values (Python None) are sequences of length 0 or 1.           *)
(* Exceptions are records [type, status_code, detail]; detail is a         *)
(* sequence of strings.                                                    *)
(***************************************************************************)
EXTENDS Integers, Sequences, FiniteSets, TLC

VARIABLES
    users,        \* rows of table "users"
    properties,   \* rows of table "properties"
    mtickets,     \* rows of table "maintenance_tickets"
    tickets,      \* rows of table "tickets"
    fk_enforced,  \* whether the database engine enforces FOREIGN KEY constraints
    reg,          \* per client: the register request between its lookup and its commit
    inflight,     \* POST /api/tickets between its first commit and its answer
    last,         \* the last handler step taken and, when it answered, its response
    prop_by,      \* history: property id -> role of the user whose request created it
    pure,         \* the last call of classify_email or should_escalate: argument, result
    mail,         \* the handle_email request in progress
    scan,         \* the process_unread_emails run in progress
    sync,         \* the Qube request (bulk_update_cases, sync_ticket_to_qube) in progress
    calls,        \* the calls to external services of the request or scan in progress
    qube          \* the cases created in Qube: the case id and the ticket it was created for

storeVars == <<users, properties, mtickets, tickets, fk_enforced>>
dbVars == <<users, properties, mtickets, tickets, fk_enforced, reg, inflight, prop_by>>
ioVars == <<pure, mail, scan, sync, calls, qube>>
vars == <<users, properties, mtickets, tickets, fk_enforced, reg, inflight, last, prop_by,
          pure, mail, scan, sync, calls, qube>>

(***************************************************************************)
(* Input domains.                                                          *)
(***************************************************************************)
Emails == {"ann@x.org", "bob@x.org"}
Passwords == {1, 2}
Salts == {0, 1}
FullNames == {"N"}
Roles == {"admin", "tenant"}
Clients == {1, 2}

None == <<>>
Some(x) == <<x>>

(***************************************************************************)
(* Exceptions and responses.                                               *)
(***************************************************************************)
HTTPException(status_code, detail) ==
    [type |-> "HTTPException", status_code |-> status_code, detail |-> detail]

Error(type, detail) ==
    [type |-> type, status_code |-> 0, detail |-> detail]

StatusText ==
    [s \in {0, 400, 401, 403, 404, 500} |->
        CASE s = 0 -> "" [] s = 400 -> "400" [] s = 401 -> "401"
          [] s = 403 -> "403" [] s = 404 -> "404" [] s = 500 -> "500"]

\* str(e): the text of an exception, kept apart from the exception itself.
Str(e) == <<"str", e.type, StatusText[e.status_code]>> \o e.detail

\* A handler that returned.
Ok(op, req, body) ==
    [op |-> op, done |-> TRUE, status |-> 200, detail |-> <<>>, req |-> req, body |-> body]

\* A handler that raised e: an HTTPException is answered with its own status and
\* detail, any other exception with the framework's 500.
Raised(op, req, e) ==
    IF e.type = "HTTPException"
    THEN [op |-> op, done |-> TRUE, status |-> e.status_code, detail |-> e.detail,
          req |-> req, body |-> None]
    ELSE [op |-> op, done |-> TRUE, status |-> 500, detail |-> <<"Internal Server Error">>,
          req |-> req, body |-> None]

\* A handler step that has not answered yet.
Pending(op, req) ==
    [op |-> op, done |-> FALSE, status |-> 0, detail |-> <<>>, req |-> req, body |-> None]

(***************************************************************************)
(* Password hashing (passlib bcrypt): a salted digest.                     *)
(***************************************************************************)
Digest(salt, password) == (password * 5 + salt * 3) % 11

get_password_hash(password, salt) ==
    [salt |-> salt, digest |-> Digest(salt, password)]

verify_password(plain_password, hashed_password) ==
    Digest(hashed_password.salt, plain_password) = hashed_password.digest

(***************************************************************************)
(* Table "users": id is a fresh uuid, email is UNIQUE.                     *)
(***************************************************************************)
UserByEmail(email) == {u \in users : u.email = email}

\* Query.first(): the row with the least id.
First(rows) == CHOOSE r \in rows : \A q \in rows : r.id <= q.id

NewUserId == Cardinality(users) + 1

\* Mutant: the email column without its UNIQUE constraint.
UsersInsertUnconstrained(row) == TRUE

\* INSERT INTO users: the UNIQUE(email) constraint rejects a second row.
UsersInsertOk(row) == UserByEmail(row.email) = {}

UserCreateReqs ==
    [email : Emails, password : Passwords, full_name : FullNames, role : Roles]

(***************************************************************************)
(* POST /register, in two steps: the lookup, then the insert and commit.   *)
(***************************************************************************)
RegisterLookup(c, user) ==
    /\ reg[c] = None
    /\ IF UserByEmail(user.email) # {}
       THEN /\ last' = Raised("register", user,
                              HTTPException(400, <<"Email already registered">>))
            /\ UNCHANGED reg
       ELSE /\ reg' = [reg EXCEPT ![c] = Some(user)]
            /\ last' = Pending("register", user)
    /\ UNCHANGED <<storeVars, inflight, prop_by, ioVars>>

RegisterCommit(c, salt) ==
    /\ reg[c] # None
    /\ LET user == reg[c][1]
           new_user == [id |-> NewUserId,
                        email |-> user.email,
                        hashed_password |-> get_password_hash(user.password, salt),
                        full_name |-> user.full_name,
                        role |-> user.role,
                        is_active |-> TRUE]
       IN  IF UsersInsertOk(new_user)
           THEN /\ users' = users \cup {new_user}
                /\ last' = Ok("register", user, Some(new_user))
           ELSE /\ UNCHANGED users
                /\ last' = Raised("register", user,
                                  Error("IntegrityError", <<"UNIQUE constraint failed: users.email">>))
    /\ reg' = [reg EXCEPT ![c] = None]
    /\ UNCHANGED <<properties, mtickets, tickets, fk_enforced, inflight, prop_by, ioVars>>

(***************************************************************************)
(* POST /login.                                                            *)
(***************************************************************************)
UserLoginReqs == [email : Emails, password : Passwords]

\* Mutant: a login that looks the user up and never verifies the password.
LoginRejectedNoVerify(user_credentials) ==
    UserByEmail(user_credentials.email) = {}

LoginRejected(user_credentials) ==
    \/ UserByEmail(user_credentials.email) = {}
    \/ ~ verify_password(user_credentials.password,
                         First(UserByEmail(user_credentials.email)).hashed_password)

login(user_credentials) ==
    /\ IF LoginRejected(user_credentials)
       THEN last' = Raised("login", user_credentials,
                           HTTPException(401, <<"Incorrect email or password">>))
       ELSE LET user == First(UserByEmail(user_credentials.email))
            IN  last' = Ok("login", user_credentials,
                           Some([access_token |-> [sub |-> user.email],
                                 token_type |-> "bearer"]))
    /\ UNCHANGED <<storeVars, reg, inflight, prop_by, ioVars>>

(***************************************************************************)
(* GET /properties and POST /properties.  The table is kept in id order.   *)
(***************************************************************************)
MaxProperties == 1

PropertyCreateReqs ==
    [address : {"1 Main St"}, property_type : {"house"}, size : {70},
     bedrooms : {2}, bathrooms : {1}, rent_amount : {900},
     status : {"available", "rented"}]

\* Query.offset(skip).limit(limit).all() over rows in id order.
OffsetLimit(rows, skip, limit) ==
    SubSeq(rows, skip + 1, IF Len(rows) < skip + limit THEN Len(rows) ELSE skip + limit)

\* The handlers that only read are given as the answer they compute from the store.
get_properties(skip, limit, current_user) ==
    Ok("get_properties", [skip |-> skip, limit |-> limit, user |-> current_user.id],
       Some(OffsetLimit(properties, skip, limit)))

\* Mutant: the role check left out.
NotAuthorizedNever(current_user) == FALSE

NotAuthorized(current_user) == current_user.role # "admin"

\* Mutant: the new row answered and never added to the session.
create_property_unsaved(property, current_user) ==
    /\ Len(properties) < MaxProperties
    /\ ~ NotAuthorized(current_user)
    /\ last' = Ok("create_property", [property |-> property, user |-> current_user.id],
                  Some([id |-> Len(properties) + 1] @@ property))
    /\ UNCHANGED <<storeVars, reg, inflight, prop_by, ioVars>>

create_property(property, current_user) ==
    /\ NotAuthorized(current_user) \/ Len(properties) < MaxProperties
    /\ LET req == [property |-> property, user |-> current_user.id] IN
       IF NotAuthorized(current_user)
       THEN /\ last' = Raised("create_property", req,
                              HTTPException(403, <<"Not authorized to create properties">>))
            /\ UNCHANGED <<properties, prop_by>>
       ELSE LET db_property == [id |-> Len(properties) + 1] @@ property
            IN  /\ properties' = Append(properties, db_property)
                /\ prop_by' = Append(prop_by, current_user.role)
                /\ last' = Ok("create_property", req, Some(db_property))
    /\ UNCHANGED <<users, mtickets, tickets, fk_enforced, reg, inflight, ioVars>>

(***************************************************************************)
(* POST /tickets and GET /tickets: maintenance tickets.                    *)
(***************************************************************************)
MaxMTickets == 1

\* The property ids a client submits: one a property may get, one no property gets.
PropertyIds == {1, MaxProperties + 1}

MaintenanceTicketCreateReqs ==
    [title : {"leak"}, description : {"tap leaks"}, priority : {"high"},
     property_id : PropertyIds]

\* INSERT INTO maintenance_tickets: FOREIGN KEY(property_id) when the engine enforces it.
MTicketsInsertOk(row) ==
    fk_enforced => row.property_id \in {properties[i].id : i \in 1 .. Len(properties)}

\* Mutant: the new maintenance ticket stored with the status of a support ticket.
create_ticket_open(ticket, current_user) ==
    /\ LET req == [ticket |-> ticket, user |-> current_user.id]
           db_ticket == [id |-> Cardinality(mtickets) + 1,
                         user_id |-> current_user.id,
                         status |-> "open"] @@ ticket
       IN  /\ ~ MTicketsInsertOk(db_ticket) \/ Cardinality(mtickets) < MaxMTickets
           /\ IF MTicketsInsertOk(db_ticket)
              THEN /\ mtickets' = mtickets \cup {db_ticket}
                   /\ last' = Ok("create_ticket", req, Some(db_ticket))
              ELSE /\ UNCHANGED mtickets
                   /\ last' = Raised("create_ticket", req,
                                     Error("IntegrityError", <<"FOREIGN KEY constraint failed">>))
    /\ UNCHANGED <<users, properties, tickets, fk_enforced, reg, inflight, prop_by, ioVars>>

create_ticket(ticket, current_user) ==
    /\ LET req == [ticket |-> ticket, user |-> current_user.id]
           db_ticket == [id |-> Cardinality(mtickets) + 1,
                         user_id |-> current_user.id,
                         status |-> "pending"] @@ ticket
       IN  /\ ~ MTicketsInsertOk(db_ticket) \/ Cardinality(mtickets) < MaxMTickets
           /\ IF MTicketsInsertOk(db_ticket)
              THEN /\ mtickets' = mtickets \cup {db_ticket}
                   /\ last' = Ok("create_ticket", req, Some(db_ticket))
              ELSE /\ UNCHANGED mtickets
                   /\ last' = Raised("create_ticket", req,
                                     Error("IntegrityError", <<"FOREIGN KEY constraint failed">>))
    /\ UNCHANGED <<users, properties, tickets, fk_enforced, reg, inflight, prop_by, ioVars>>

\* Mutant: every maintenance ticket returned, whatever the role of the reader.
get_tickets_unfiltered(current_user) ==
    Ok("get_tickets", [user |-> current_user.id], Some(mtickets))

get_tickets(current_user) ==
    LET found == IF current_user.role = "admin"
                 THEN mtickets
                 ELSE {t \in mtickets : t.user_id = current_user.id}
    IN  Ok("get_tickets", [user |-> current_user.id], Some(found))

(***************************************************************************)
(* GET /admin/stats.                                                       *)
(***************************************************************************)
\* Mutant: every user counted as a tenant.
get_admin_stats_all_users(current_user) ==
    LET req == [user |-> current_user.id] IN
    IF current_user.role # "admin"
    THEN Raised("get_admin_stats", req,
                HTTPException(403, <<"Not authorized to access admin stats">>))
    ELSE Ok("get_admin_stats", req,
            Some([total_properties |-> Len(properties),
                  total_tenants |-> Cardinality(users),
                  pending_tickets |->
                      Cardinality({t \in mtickets : t.status = "pending"})]))

get_admin_stats(current_user) ==
    LET req == [user |-> current_user.id] IN
    IF current_user.role # "admin"
    THEN Raised("get_admin_stats", req,
                HTTPException(403, <<"Not authorized to access admin stats">>))
    ELSE Ok("get_admin_stats", req,
            Some([total_properties |-> Len(properties),
                  total_tenants |-> Cardinality({u \in users : u.role = "tenant"}),
                  pending_tickets |->
                      Cardinality({t \in mtickets : t.status = "pending"})]))

(***************************************************************************)
(* ticket_system.py: support tickets.                                      *)
(***************************************************************************)
MaxTickets == 1

TicketCreateReqs ==
    [title : {"noise"}, description : {"loud neighbours"}, category : {"complaint"},
     priority : {"low", "high"}]

LlmReplies == {"We will look into it."}

FallbackResponse == "Thank you for your ticket. Our team will review it shortly."

\* The outcome of the policy search and of the LLM call: each may raise.
AiOutcomes == [policy_ok : BOOLEAN, llm : {None} \cup {Some(r) : r \in LlmReplies}]

\* Mutant: a failure answered with an empty response instead of the fixed message.
generate_ai_response_blank(outcome) ==
    IF outcome.policy_ok /\ outcome.llm # None
    THEN outcome.llm[1]
    ELSE ""

generate_ai_response(outcome) ==
    IF outcome.policy_ok /\ outcome.llm # None
    THEN outcome.llm[1]
    ELSE FallbackResponse

\* The content of a reply of the LLM: a text, which may be the empty text.
AiReplies == LlmReplies \cup {""}

AiOutcomesAll == [policy_ok : BOOLEAN, llm : {None} \cup {Some(r) : r \in AiReplies}]

\* One call of generate_ai_response.
Generate(outcome) ==
    /\ pure' = [fn |-> "generate_ai_response", arg |-> outcome,
                result |-> generate_ai_response(outcome)]
    /\ UNCHANGED <<dbVars, last, mail, scan, sync, calls, qube>>

TicketById(ticket_id) == {t \in tickets : t.id = ticket_id}

\* db.add, db.commit, db.refresh of the new row; commit_ok is whether the database
\* accepts the commit.
api_create_ticket_insert(ticket, current_user, commit_ok) ==
    /\ inflight = None
    /\ ~ commit_ok \/ Cardinality(tickets) < MaxTickets
    /\ LET req == [ticket |-> ticket, user |-> current_user.id]
           db_ticket == [id |-> Cardinality(tickets) + 1,
                         title |-> ticket.title,
                         description |-> ticket.description,
                         category |-> ticket.category,
                         priority |-> ticket.priority,
                         status |-> "open",
                         user_id |-> current_user.id,
                         ai_response |-> None,
                         staff_response |-> None]
       IN  IF commit_ok
           THEN /\ tickets' = tickets \cup {db_ticket}
                /\ inflight' = Some(db_ticket.id)
                /\ last' = Pending("api_create_ticket", req)
           ELSE /\ UNCHANGED <<tickets, inflight>>
                /\ last' = Raised("api_create_ticket", req,
                                  HTTPException(500, Str(Error("OperationalError", <<"commit failed">>))))
    /\ UNCHANGED <<users, properties, mtickets, fk_enforced, reg, prop_by, ioVars>>

\* Mutant: a failed second commit answered by removing the ticket just stored.
api_create_ticket_respond_cleanup(outcome, commit_ok) ==
    /\ inflight # None
    /\ LET old == First(TicketById(inflight[1]))
           db_ticket == [old EXCEPT !.ai_response = Some(generate_ai_response(outcome))]
           req == [ticket |-> [title |-> old.title, description |-> old.description,
                               category |-> old.category, priority |-> old.priority],
                   user |-> old.user_id]
       IN  IF commit_ok
           THEN /\ tickets' = (tickets \ {old}) \cup {db_ticket}
                /\ last' = Ok("api_create_ticket", req, Some(db_ticket))
           ELSE /\ tickets' = tickets \ {old}
                /\ last' = Raised("api_create_ticket", req,
                                  HTTPException(500, Str(Error("OperationalError", <<"commit failed">>))))
    /\ inflight' = None
    /\ UNCHANGED <<users, properties, mtickets, fk_enforced, reg, prop_by, ioVars>>

\* generate_ai_response, the second commit and the answer.
api_create_ticket_respond(outcome, commit_ok) ==
    /\ inflight # None
    /\ LET old == First(TicketById(inflight[1]))
           db_ticket == [old EXCEPT !.ai_response = Some(generate_ai_response(outcome))]
           req == [ticket |-> [title |-> old.title, description |-> old.description,
                               category |-> old.category, priority |-> old.priority],
                   user |-> old.user_id]
       IN  IF commit_ok
           THEN /\ tickets' = (tickets \ {old}) \cup {db_ticket}
                /\ last' = Ok("api_create_ticket", req, Some(db_ticket))
           ELSE /\ UNCHANGED tickets
                /\ last' = Raised("api_create_ticket", req,
                                  HTTPException(500, Str(Error("OperationalError", <<"commit failed">>))))
    /\ inflight' = None
    /\ UNCHANGED <<users, properties, mtickets, fk_enforced, reg, prop_by, ioVars>>

RECURSIVE OrderByIdDesc(_)
\* order_by(created_at.desc()): rows were created in id order.
OrderByIdDesc(rows) ==
    IF rows = {} THEN <<>>
    ELSE LET r == CHOOSE x \in rows : \A y \in rows : y.id <= x.id
         IN  <<r>> \o OrderByIdDesc(rows \ {r})

api_get_tickets(current_user) ==
    Ok("api_get_tickets", [user |-> current_user.id],
       Some(OrderByIdDesc({t \in tickets : t.user_id = current_user.id})))

TicketIds == 1 .. (MaxTickets + 1)

\* Mutant: the 404 raised outside the try block, so that it reaches the caller.
api_get_ticket_unwrapped(ticket_id, current_user) ==
    LET req == [ticket_id |-> ticket_id, user |-> current_user.id]
        found == {t \in tickets : t.id = ticket_id /\ t.user_id = current_user.id}
    IN  IF found = {}
        THEN Raised("api_get_ticket", req, HTTPException(404, <<"Ticket not found">>))
        ELSE Ok("api_get_ticket", req, Some(First(found)))

api_get_ticket(ticket_id, current_user) ==
    LET req == [ticket_id |-> ticket_id, user |-> current_user.id]
        found == {t \in tickets : t.id = ticket_id /\ t.user_id = current_user.id}
    IN  IF found = {}
        THEN Raised("api_get_ticket", req,
                    HTTPException(500, Str(HTTPException(404, <<"Ticket not found">>))))
        ELSE Ok("api_get_ticket", req, Some(First(found)))

\* A read handler answering: the store is left as it is.
Read(answer) ==
    /\ last' = answer
    /\ UNCHANGED <<storeVars, reg, inflight, prop_by, ioVars>>

(***************************************************************************)
(* qube_integration.py: the webhook receiver.                              *)
(***************************************************************************)
QUBE_WEBHOOK_SECRET == 7

Keys == {QUBE_WEBHOOK_SECRET, 3}

CaseIds == {"Q1", "Q2"}

Payloads ==
    [event_type : {"case.updated", "case.created"},
     case : {None} \cup {Some([case_id |-> c, status |-> "closed"]) : c \in CaseIds}]

PayloadCode(payload) ==
    (IF payload.event_type = "case.updated" THEN 1 ELSE 2)
    + (IF payload.case = None THEN 0
       ELSE IF payload.case[1].case_id = "Q1" THEN 2 ELSE 4)

\* jwt.encode(payload, key, algorithm="HS256"): the payload and its keyed digest.
jwt_encode(payload, key) ==
    [payload |-> payload, mac |-> (PayloadCode(payload) * key) % 13]

\* The columns models.Ticket declares.
TicketColumns ==
    {"id", "title", "description", "category", "priority", "status", "ai_response",
     "staff_response", "user_id", "created_at", "updated_at"}

\* The X-Qube-Signature headers a sender may present: none (or an empty one), or a
\* token made with any key over any payload.
Signatures ==
    {None} \cup {Some(jwt_encode(p, k)) : p \in Payloads, k \in Keys}

SignatureMissing(signature) == signature = None

\* Mutant: the header compared by its payload only, the keyed digest ignored.
SignatureInvalidPayloadOnly(signature, payload) ==
    signature[1].payload # payload

SignatureInvalid(signature, payload) ==
    signature # Some(jwt_encode(payload, QUBE_WEBHOOK_SECRET))

\* Every exception of the handler body, the two 401s included, is caught by its
\* "except Exception" and answered as a 500 whose detail is str(e).
qube_webhook(signature, payload) ==
    /\ LET req == [signature |-> signature, payload |-> payload]
           caught(e) == Raised("qube_webhook", req, HTTPException(500, Str(e)))
       IN  IF SignatureMissing(signature)
           THEN /\ last' = caught(HTTPException(401, <<"Missing signature">>))
                /\ UNCHANGED tickets
           ELSE IF SignatureInvalid(signature, payload)
           THEN /\ last' = caught(HTTPException(401, <<"Invalid signature">>))
                /\ UNCHANGED tickets
           ELSE IF payload.event_type = "case.updated"
           THEN IF payload.case = None
                THEN /\ last' = caught(Error("TypeError",
                                             <<"'NoneType' object is not subscriptable">>))
                     /\ UNCHANGED tickets
                ELSE IF "qube_case_id" \notin TicketColumns
                THEN /\ last' = caught(Error("AttributeError",
                            <<"type object 'Ticket' has no attribute 'qube_case_id'">>))
                     /\ UNCHANGED tickets
                ELSE LET found == {t \in tickets :
                                      t.qube_case_id = Some(payload.case[1].case_id)}
                     IN  /\ tickets' =
                                IF found = {} THEN tickets
                                ELSE (tickets \ {First(found)}) \cup
                                     {[First(found) EXCEPT !.status = payload.case[1].status]}
                         /\ last' = Ok("qube_webhook", req, Some([status |-> "success"]))
           ELSE /\ last' = Ok("qube_webhook", req, Some([status |-> "success"]))
                /\ UNCHANGED tickets
    /\ UNCHANGED <<users, properties, mtickets, fk_enforced, reg, inflight, prop_by, ioVars>>

(***************************************************************************)
(* email_classifier.py.  A text is the sequence of its words and of the    *)
(* white space between them; confidence is counted in tenths.              *)
(***************************************************************************)
MaxReplyLen == 2

Words ==
    {"complaint", "Complaint", "RENT_ISSUE", "service_request", "general_inquiry",
     "legal", "complaint,", "{"}

Space == " "

Texts == UNION {[1 .. n -> Words \cup {Space}] : n \in 0 .. MaxReplyLen}

\* str.lower()
LowerWord(w) ==
    CASE w = "Complaint" -> "complaint"
      [] w = "RENT_ISSUE" -> "rent_issue"
      [] OTHER -> w

Lower(text) == [i \in 1 .. Len(text) |-> LowerWord(text[i])]

\* str.split()
IsWord(t) == t # Space

Split(text) == SelectSeq(text, IsWord)

CATEGORIES ==
    [complaint |-> [department |-> "Customer Service", priority |-> "high"],
     rent_issue |-> [department |-> "Finance", priority |-> "high"],
     service_request |-> [department |-> "Maintenance", priority |-> "medium"],
     general_inquiry |-> [department |-> "General Support", priority |-> "low"]]

DEFAULT_CONFIDENCE == 8

EmailCategory(category, confidence, department, priority) ==
    [category |-> category, confidence |-> confidence,
     department |-> department, priority |-> priority]

Returned(value) == [ok |-> TRUE, value |-> Some(value), exc |-> None]

Raises(e) == [ok |-> FALSE, value |-> None, exc |-> Some(e)]

\* What the LLM call gives: an exception (None) or the content of its reply.
LlmOutcomes == {None} \cup {Some(t) : t \in Texts}

\* Mutant: the reply split without being lower-cased first.
classify_email_no_lower(llm) ==
    IF llm = None \/ Split(llm[1]) = <<>>
    THEN Raises(HTTPException(500, <<"Error classifying email: ">>))
    ELSE LET first == Split(llm[1])[1]
             category == IF first \in DOMAIN CATEGORIES THEN first ELSE "general_inquiry"
         IN  Returned(EmailCategory(category, DEFAULT_CONFIDENCE,
                                    CATEGORIES[category].department,
                                    CATEGORIES[category].priority))

classify_email(llm) ==
    IF llm = None
    THEN Raises(HTTPException(500,
                    <<"Error classifying email: ">> \o Str(Error("APIError", <<"llm">>))))
    ELSE IF Split(Lower(llm[1])) = <<>>
    THEN Raises(HTTPException(500,
                    <<"Error classifying email: ">>
                    \o Str(Error("IndexError", <<"list index out of range">>))))
    ELSE LET first == Split(Lower(llm[1]))[1]
             category == IF first \notin DOMAIN CATEGORIES THEN "general_inquiry" ELSE first
         IN  Returned(EmailCategory(category, DEFAULT_CONFIDENCE,
                                    CATEGORIES[category].department,
                                    CATEGORIES[category].priority))

get_department_email(category) ==
    CASE category = "complaint" -> "customer-service@propertypro.com"
      [] category = "rent_issue" -> "finance@propertypro.com"
      [] category = "service_request" -> "maintenance@propertypro.com"
      [] category = "general_inquiry" -> "support@propertypro.com"
      [] OTHER -> "support@propertypro.com"

\* Mutant: the high-priority threshold taken as "at least 0.7".
should_escalate_at_least(category) ==
    (category.priority = "high" /\ category.confidence >= 7) \/ category.confidence < 5

should_escalate(category) ==
    (category.priority = "high" /\ category.confidence > 7) \/ category.confidence < 5

\* The EmailCategory values should_escalate is applied to.
EmailCategories ==
    [category : {"complaint", "general_inquiry", "legal"},
     confidence : 0 .. 10,
     department : {"Customer Service", "General Support"},
     priority : {"high", "medium", "low"}]

Classify(llm) ==
    /\ pure' = [fn |-> "classify_email", arg |-> llm, result |-> classify_email(llm)]
    /\ UNCHANGED <<dbVars, qube, last, mail, scan, sync, calls>>

Escalate(category) ==
    /\ pure' = [fn |-> "should_escalate", arg |-> category,
                result |-> should_escalate(category)]
    /\ UNCHANGED <<dbVars, qube, last, mail, scan, sync, calls>>

(***************************************************************************)
(* Requests that call external services.  Each step makes one call and     *)
(* appends it to calls; one request or scan is followed at a time, and the *)
(* log is that of the one in progress.                                     *)
(***************************************************************************)
Idle == [pc |-> "idle"]

Resting(activity) == activity.pc \in {"idle", "done", "failed"}

NothingRunning == Resting(mail) /\ Resting(scan) /\ Resting(sync)

\* One call of an external service: the call site, its argument, whether it succeeded.
Call(site, arg, ok) == [site |-> site, arg |-> arg, ok |-> ok]

\* An exception that leaves a function that is no HTTP handler.
Propagated(op, req, e) ==
    [op |-> op, done |-> TRUE, status |-> 0, detail |-> Str(e), req |-> req, body |-> None]

\* The replies of the LLM the pipelines are run with.
MailLlmOutcomes ==
    {None, Some(<<>>), Some(<<"Complaint">>), Some(<<"service_request">>)}

(***************************************************************************)
(* email_handler.py: POST /api/email/respond.                              *)
(***************************************************************************)
EmailRequests ==
    [sender_email : {"tenant@x.org"}, subject : {"hello"}, content : {"text"},
     property_id : {None}]

ResponseTexts == {"Dear tenant"}

\* Every exception of the handler body is caught and answered as a 500.
HandleEmailFailed(e) ==
    /\ mail' = [mail EXCEPT !.pc = "failed"]
    /\ last' = Raised("handle_email", mail.req,
                      HTTPException(500, <<"Error processing email: ">> \o Str(e)))

HandleEmailStart(request) ==
    /\ NothingRunning
    /\ mail' = [pc |-> "classify", req |-> request]
    /\ scan' = Idle
    /\ sync' = Idle
    /\ calls' = <<>>
    /\ last' = Pending("handle_email", request)
    /\ UNCHANGED <<dbVars, qube, pure>>

\* Mutant: a failed classification swallowed, the pipeline going on with the default category.
HandleEmailClassifyLenient(llm) ==
    /\ mail.pc = "classify"
    /\ calls' = Append(calls, Call("classify_email", <<mail.req.content>>, llm # None))
    /\ LET r == classify_email(llm)
           category == IF r.ok THEN r.value[1]
                       ELSE EmailCategory("general_inquiry", DEFAULT_CONFIDENCE,
                                          CATEGORIES["general_inquiry"].department,
                                          CATEGORIES["general_inquiry"].priority)
       IN  /\ mail' = [pc |-> "generate", req |-> mail.req, category |-> category]
           /\ last' = Pending("handle_email", mail.req)
    /\ UNCHANGED <<dbVars, qube, pure, scan, sync>>

HandleEmailClassify(llm) ==
    /\ mail.pc = "classify"
    /\ calls' = Append(calls, Call("classify_email", <<mail.req.content>>, llm # None))
    /\ LET r == classify_email(llm) IN
       IF r.ok
       THEN /\ mail' = [pc |-> "generate", req |-> mail.req, category |-> r.value[1]]
            /\ last' = Pending("handle_email", mail.req)
       ELSE HandleEmailFailed(r.exc[1])
    /\ UNCHANGED <<dbVars, qube, pure, scan, sync>>

HandleEmailGenerate(llm) ==
    /\ mail.pc = "generate"
    /\ calls' = Append(calls, Call("generate_email_response", <<mail.req.content>>,
                                   llm # None))
    /\ IF llm # None
       THEN /\ mail' = [pc |-> IF should_escalate(mail.category) THEN "escalate" ELSE "reply",
                        req |-> mail.req,
                        category |-> mail.category,
                        response |-> llm[1],
                        should_escalate |-> should_escalate(mail.category)]
            /\ last' = Pending("handle_email", mail.req)
       ELSE HandleEmailFailed(HTTPException(500,
                <<"Error generating email response: ">> \o Str(Error("APIError", <<"llm">>))))
    /\ UNCHANGED <<dbVars, qube, pure, scan, sync>>

SendEmailError ==
    HTTPException(500, <<"Error sending email: ">> \o Str(Error("SMTPException", <<"smtp">>)))

\* Mutant: the escalation email addressed to the sender of the request.
HandleEmailEscalateToSender(smtp_ok) ==
    /\ mail.pc = "escalate"
    /\ calls' = Append(calls, Call("send_email", <<mail.req.sender_email, "Escalated: ">>, smtp_ok))
    /\ IF smtp_ok
       THEN /\ mail' = [mail EXCEPT !.pc = "reply"]
            /\ last' = Pending("handle_email", mail.req)
       ELSE HandleEmailFailed(SendEmailError)
    /\ UNCHANGED <<dbVars, qube, pure, scan, sync>>

HandleEmailEscalate(smtp_ok) ==
    /\ mail.pc = "escalate"
    /\ calls' = Append(calls,
                       Call("send_email",
                            <<get_department_email(mail.category.category), "Escalated: ">>,
                            smtp_ok))
    /\ IF smtp_ok
       THEN /\ mail' = [mail EXCEPT !.pc = "reply"]
            /\ last' = Pending("handle_email", mail.req)
       ELSE HandleEmailFailed(SendEmailError)
    /\ UNCHANGED <<dbVars, qube, pure, scan, sync>>

HandleEmailReply(smtp_ok) ==
    /\ mail.pc = "reply"
    /\ calls' = Append(calls, Call("send_email", <<mail.req.sender_email, "Re: ">>, smtp_ok))
    /\ IF smtp_ok
       THEN /\ mail' = [mail EXCEPT !.pc = "done"]
            /\ last' = Ok("handle_email", mail.req,
                          Some([response |-> mail.response,
                                category |-> mail.category,
                                escalated |-> mail.should_escalate]))
       ELSE HandleEmailFailed(SendEmailError)
    /\ UNCHANGED <<dbVars, qube, pure, scan, sync>>

(***************************************************************************)
(* email_scanner.py: process_unread_emails.                                *)
(***************************************************************************)
MaxMsgs == 2

\* What the UNSEEN search may return: message numbers, none twice.
Inboxes ==
    {m \in UNION {[1 .. n -> 1 .. MaxMsgs] : n \in 0 .. MaxMsgs} :
        \A i \in 1 .. Len(m) : \A j \in 1 .. Len(m) : m[i] = m[j] => i = j}

department_routes ==
    [complaint |-> "complaints@propertypro.com",
     rent_issue |-> "arrears@propertypro.com",
     service_request |-> "repairs@propertypro.com",
     legal |-> "legal@propertypro.com",
     praise |-> "customer-service@propertypro.com",
     general_inquiry |-> "support@propertypro.com"]

ScanStart ==
    /\ NothingRunning
    /\ scan' = [pc |-> "connect", msgs |-> <<>>, i |-> 1, processed |-> <<>>]
    /\ mail' = Idle
    /\ sync' = Idle
    /\ calls' = <<>>
    /\ last' = Pending("run_email_scan", None)
    /\ UNCHANGED <<dbVars, qube, pure>>

\* An exception outside the loop: logged and raised again, up to the caller.
ScanRaise(e) ==
    /\ scan' = [scan EXCEPT !.pc = "failed"]
    /\ last' = Propagated("run_email_scan", None, e)

ScanConnect(ok) ==
    /\ scan.pc = "connect"
    /\ calls' = Append(calls, Call("connect", <<>>, ok))
    /\ IF ok
       THEN /\ scan' = [scan EXCEPT !.pc = "search"]
            /\ UNCHANGED last
       ELSE ScanRaise(Error("IMAP4.error", <<"login failed">>))
    /\ UNCHANGED <<dbVars, qube, pure, mail, sync>>

\* Mutant: a loop that stays on a message whose handling failed.
NextIndexRetry(i) == i

\* The for loop's step to the next message number.
NextIndex(i) == i + 1

\* Where the loop stands once message i is dealt with.
LoopPc(msgs, i) == IF i > Len(msgs) THEN "close" ELSE "fetch"

ScanSearch(ok, inbox) ==
    /\ scan.pc = "search"
    /\ calls' = Append(calls, Call("search", <<>>, ok))
    /\ IF ok
       THEN /\ scan' = [scan EXCEPT !.pc = LoopPc(inbox, 1), !.msgs = inbox]
            /\ UNCHANGED last
       ELSE ScanRaise(Error("IMAP4.error", <<"search failed">>))
    /\ UNCHANGED <<dbVars, qube, pure, mail, sync>>

\* except Exception: logger.error(...); continue
ScanSkip ==
    /\ scan' = [pc |-> LoopPc(scan.msgs, NextIndex(scan.i)), msgs |-> scan.msgs,
                i |-> NextIndex(scan.i), processed |-> scan.processed]
    /\ UNCHANGED last

\* processed_emails.append(...), then the next message.
ScanProcessed(category) ==
    /\ scan' = [pc |-> LoopPc(scan.msgs, scan.i + 1), msgs |-> scan.msgs,
                i |-> scan.i + 1,
                processed |-> Append(scan.processed,
                                     [id |-> scan.msgs[scan.i], category |-> category])]
    /\ UNCHANGED last

\* imap.fetch and the parsing of the message; parse_ok is whether the subject and
\* the body decode.
ScanFetch(ok, parse_ok) ==
    /\ scan.pc = "fetch"
    /\ calls' = Append(calls, Call("fetch", <<scan.msgs[scan.i]>>, ok))
    /\ IF ok /\ parse_ok
       THEN /\ scan' = [scan EXCEPT !.pc = "classify"]
            /\ UNCHANGED last
       ELSE ScanSkip
    /\ UNCHANGED <<dbVars, qube, pure, mail, sync>>

ScanClassify(llm) ==
    /\ scan.pc = "classify"
    /\ calls' = Append(calls, Call("classify_email", <<scan.msgs[scan.i]>>, llm # None))
    /\ LET r == classify_email(llm) IN
       IF ~ r.ok
       THEN ScanSkip
       ELSE IF r.value[1].category \in DOMAIN department_routes
       THEN /\ scan' = [pc |-> "forward", msgs |-> scan.msgs, i |-> scan.i,
                        processed |-> scan.processed, category |-> r.value[1].category]
            /\ UNCHANGED last
       ELSE ScanProcessed(r.value[1].category)
    /\ UNCHANGED <<dbVars, qube, pure, mail, sync>>

\* Mutant: forward_email logging its failure and returning.
ForwardRaisesNever(smtp_ok) == FALSE

\* forward_email logs a failure and raises it again.
ForwardRaises(smtp_ok) == ~ smtp_ok

ScanForward(smtp_ok) ==
    /\ scan.pc = "forward"
    /\ calls' = Append(calls, Call("forward_email", <<scan.msgs[scan.i]>>, smtp_ok))
    /\ IF ForwardRaises(smtp_ok)
       THEN ScanSkip
       ELSE ScanProcessed(scan.category)
    /\ UNCHANGED <<dbVars, qube, pure, mail, sync>>

ScanClose(ok) ==
    /\ scan.pc = "close"
    /\ calls' = Append(calls, Call("close", <<>>, ok))
    /\ IF ok
       THEN /\ scan' = [scan EXCEPT !.pc = "done"]
            /\ last' = Ok("run_email_scan", None, Some(scan.processed))
       ELSE ScanRaise(Error("IMAP4.error", <<"close failed">>))
    /\ UNCHANGED <<dbVars, qube, pure, mail, sync>>

(***************************************************************************)
(* qube_integration.py: sync_ticket_to_qube and bulk_update_cases.         *)
(***************************************************************************)
\* A Ticket object in memory: its row id and the attribute qube_case_id, which no
\* column backs: a freshly loaded object lacks it, one synchronised before has it.
TicketObjects == [id : {1}, qube_case_id : {None} \cup {Some(c) : c \in CaseIds}]

GetTokenError ==
    HTTPException(500, <<"Failed to get Qube token: ">> \o Str(Error("HTTPError", <<"qube">>)))

SyncFailed(e) ==
    /\ sync' = [sync EXCEPT !.pc = "failed"]
    /\ last' = Propagated("sync_ticket_to_qube", sync.ticket.id,
                          HTTPException(500, <<"Failed to sync ticket with Qube: ">> \o Str(e)))

\* The cases Qube holds for a ticket.
CasesOf(ticket_id) == {c \in qube : c.ticket = ticket_id}

\* The object handed to sync_ticket_to_qube is one loaded from the database, or the
\* object an earlier call synchronised, which still carries the id of its case.
SyncStart(ticket) ==
    /\ NothingRunning
    /\ ticket.qube_case_id # None =>
          [case_id |-> ticket.qube_case_id[1], ticket |-> ticket.id] \in qube
    /\ sync' = [pc |-> "sync_token", ticket |-> ticket]
    /\ mail' = Idle
    /\ scan' = Idle
    /\ calls' = <<>>
    /\ last' = Pending("sync_ticket_to_qube", ticket.id)
    /\ UNCHANGED <<dbVars, qube, pure>>

SyncToken(ok) ==
    /\ sync.pc = "sync_token"
    /\ calls' = Append(calls, Call("get_qube_token", <<sync.ticket.id>>, ok))
    /\ IF ok
       THEN /\ sync' = [sync EXCEPT !.pc = "sync_send"]
            /\ last' = Pending("sync_ticket_to_qube", sync.ticket.id)
       ELSE SyncFailed(GetTokenError)
    /\ UNCHANGED <<dbVars, qube, pure, mail, scan>>

\* hasattr(ticket, 'qube_case_id') and ticket.qube_case_id: PUT, else POST.
SyncMethod(ticket) == IF ticket.qube_case_id # None THEN "put_case" ELSE "post_case"

\* PUT for a ticket that carries a case id, POST otherwise; then the attribute is set
\* on the object and the session committed.  Qube answers a POST with the id of a
\* new case and a PUT with the id of the case updated.
SyncSend(ok, case_id) ==
    /\ sync.pc = "sync_send"
    /\ ok => IF SyncMethod(sync.ticket) = "post_case"
             THEN case_id \notin {c.case_id : c \in qube}
             ELSE sync.ticket.qube_case_id = Some(case_id)
    /\ calls' = Append(calls, Call(SyncMethod(sync.ticket), <<sync.ticket.id>>, ok))
    /\ IF ok
       THEN /\ sync' = [pc |-> "done",
                        ticket |-> [sync.ticket EXCEPT !.qube_case_id = Some(case_id)]]
            /\ qube' = IF SyncMethod(sync.ticket) = "post_case"
                       THEN qube \cup {[case_id |-> case_id, ticket |-> sync.ticket.id]}
                       ELSE qube
            /\ last' = Ok("sync_ticket_to_qube", sync.ticket.id, Some(case_id))
       ELSE /\ SyncFailed(Error("HTTPStatusError", <<"qube">>))
            /\ UNCHANGED qube
    /\ UNCHANGED <<dbVars, pure, mail, scan>>

BulkUpdateRequests ==
    [case_ids : {{"Q1"}}, status : {None, Some("closed")}, priority : {None}]

BulkStart(request) ==
    /\ NothingRunning
    /\ sync' = [pc |-> "bulk_token", request |-> request]
    /\ mail' = Idle
    /\ scan' = Idle
    /\ calls' = <<>>
    /\ last' = Pending("bulk_update_cases", request)
    /\ UNCHANGED <<dbVars, qube, pure>>

\* Mutant: the requested status written to the tickets and committed before the
\* failure, so that the rollback no longer undoes it.
BulkTokenCommitted(ok) ==
    /\ sync.pc = "bulk_token"
    /\ calls' = Append(calls, Call("get_qube_token", <<>>, ok))
    /\ sync' = [sync EXCEPT !.pc = "failed"]
    /\ tickets' = IF sync.request.status = None THEN tickets
                  ELSE {[t EXCEPT !.status = sync.request.status[1]] : t \in tickets}
    /\ last' = Raised("bulk_update_cases", sync.request,
                      HTTPException(500, Str(IF ok THEN Error("AttributeError",
                          <<"type object 'Ticket' has no attribute 'qube_case_id'">>)
                                             ELSE GetTokenError)))
    /\ UNCHANGED <<users, properties, mtickets, fk_enforced, reg, inflight, prop_by,
                   qube, pure, mail, scan>>

\* get_qube_token, then the query on Ticket.qube_case_id, an attribute the class
\* lacks: the AttributeError is caught, the session rolled back, and a 500 answered.
\* The loop over the tickets found is never entered.
BulkToken(ok) ==
    /\ sync.pc = "bulk_token"
    /\ calls' = Append(calls, Call("get_qube_token", <<>>, ok))
    /\ sync' = [sync EXCEPT !.pc = IF ok /\ "qube_case_id" \in TicketColumns
                                     THEN "bulk_loop" ELSE "failed"]
    /\ last' = IF ~ ok
               THEN Raised("bulk_update_cases", sync.request,
                           HTTPException(500, Str(GetTokenError)))
               ELSE IF "qube_case_id" \notin TicketColumns
               THEN Raised("bulk_update_cases", sync.request,
                           HTTPException(500, Str(Error("AttributeError",
                               <<"type object 'Ticket' has no attribute 'qube_case_id'">>))))
               ELSE Pending("bulk_update_cases", sync.request)
    /\ UNCHANGED <<dbVars, qube, pure, mail, scan>>

(***************************************************************************)
(* Case notifications: email_notifications.py.  The ticket is a row of     *)
(* table "tickets" (models.Ticket) or a Ticket object not yet stored.      *)
(***************************************************************************)
HasAttr(obj, name) == name \in DOMAIN obj

AttributeError(type, name) ==
    Error("AttributeError", <<"'", type, "' object has no attribute '", name, "'">>)

\* send_email: the whole body is inside try/except Exception, which prints.
send_email(to_email, smtp_ok) ==
    [raised |-> None,
     sent |-> IF smtp_ok THEN <<to_email>> ELSE <<>>,
     printed |-> IF smtp_ok THEN <<>> ELSE <<"Failed to send email: ">>]

\* The body the three notify_case_* functions share: the tenant by
\* ticket.user_id, the property owner by ticket.property.owner_id, then the two
\* background tasks.  background_tasks arrives empty; tasks is what was added.
notify_case(subject, ticket) ==
    LET tenant == {u \in users : u.id = ticket.user_id}
        task(u) == [fn |-> "send_email", to_email |-> u.email, subject |-> subject]
    IN  IF tenant = {} THEN [raised |-> None, tasks |-> <<>>]
        ELSE IF ~ HasAttr(ticket, "property")
        THEN [raised |-> Some(AttributeError("Ticket", "property")), tasks |-> <<>>]
        ELSE IF ~ HasAttr(ticket.property, "owner_id")
        THEN [raised |-> Some(AttributeError("Property", "owner_id")), tasks |-> <<>>]
        ELSE LET property_owner == {u \in users : u.id = ticket.property.owner_id}
             IN  IF property_owner = {} THEN [raised |-> None, tasks |-> <<>>]
                 ELSE [raised |-> None,
                       tasks |-> <<task(First(tenant)), task(First(property_owner))>>]

notify_case_created(ticket) == notify_case("New Support Case Created: ", ticket)

notify_case_updated(ticket) == notify_case("Case Update: ", ticket)

notify_case_closed(ticket) == notify_case("Case Closed: ", ticket)

\* A Ticket object built for a user id that names no user.
UnsavedTickets ==
    {[id |-> 0, title |-> ticket.title, description |-> ticket.description,
      category |-> ticket.category, priority |-> ticket.priority, status |-> "open",
      user_id |-> 0, ai_response |-> None, staff_response |-> None] :
        ticket \in {t \in TicketCreateReqs : t.priority = "high"}}

NotifyFns == {"notify_case_created", "notify_case_updated", "notify_case_closed"}

\* One call of a notify_case_* function with an empty BackgroundTasks.
Notify(fn, ticket) ==
    /\ pure' = [fn |-> fn, arg |-> ticket,
                result |-> CASE fn = "notify_case_created" -> notify_case_created(ticket)
                             [] fn = "notify_case_updated" -> notify_case_updated(ticket)
                             [] fn = "notify_case_closed" -> notify_case_closed(ticket)]
    /\ UNCHANGED <<dbVars, last, mail, scan, sync, calls, qube>>

\* One call of send_email.
SendEmail(to_email, smtp_ok) ==
    /\ pure' = [fn |-> "send_email", arg |-> [to_email |-> to_email, smtp_ok |-> smtp_ok],
                result |-> send_email(to_email, smtp_ok)]
    /\ UNCHANGED <<dbVars, last, mail, scan, sync, calls, qube>>

(***************************************************************************)
(* Specifications.                                                         *)
(***************************************************************************)
Init ==
    /\ users = {}
    /\ properties = <<>>
    /\ mtickets = {}
    /\ tickets = {}
    /\ fk_enforced \in BOOLEAN
    /\ reg = [c \in Clients |-> None]
    /\ inflight = None
    /\ last = Pending("start", None)
    /\ prop_by = <<>>
    /\ pure = [fn |-> "none"]
    /\ mail = Idle
    /\ scan = Idle
    /\ sync = Idle
    /\ calls = <<>>
    /\ qube = {}

\* Concurrent registrations and logins.
NextAuth ==
    \/ \E c \in Clients, user \in UserCreateReqs : RegisterLookup(c, user)
    \/ \E c \in Clients, salt \in Salts : RegisterCommit(c, salt)
    \/ \E user_credentials \in UserLoginReqs : login(user_credentials)

SpecAuth == Init /\ [][NextAuth]_vars

\* The accounts the store specifications register: an admin and a tenant.
Accounts ==
    {[email |-> "ann@x.org", password |-> 1, full_name |-> "N", role |-> "admin"],
     [email |-> "bob@x.org", password |-> 2, full_name |-> "N", role |-> "tenant"]}

\* The writing handlers of main.py and ticket_system.py.
Next ==
    \/ \E user \in Accounts : RegisterLookup(1, user)
    \/ RegisterCommit(1, 0)
    \/ \E current_user \in users, property \in PropertyCreateReqs :
          create_property(property, current_user)
    \/ \E current_user \in users, ticket \in MaintenanceTicketCreateReqs :
          create_ticket(ticket, current_user)
    \/ \E current_user \in users, ticket \in TicketCreateReqs, commit_ok \in BOOLEAN :
          api_create_ticket_insert(ticket, current_user, commit_ok)
    \/ \E outcome \in AiOutcomes, commit_ok \in BOOLEAN :
          api_create_ticket_respond(outcome, commit_ok)

Spec == Init /\ [][Next]_vars

\* ticket_system.py and the Qube webhook.
NextTickets ==
    \/ \E user \in Accounts : RegisterLookup(1, user)
    \/ RegisterCommit(1, 0)
    \/ \E current_user \in users, ticket \in TicketCreateReqs, commit_ok \in BOOLEAN :
          api_create_ticket_insert(ticket, current_user, commit_ok)
    \/ \E outcome \in AiOutcomes, commit_ok \in BOOLEAN :
          api_create_ticket_respond(outcome, commit_ok)
    \/ \E current_user \in users, ticket_id \in TicketIds :
          Read(api_get_ticket(ticket_id, current_user))
    \/ \E signature \in Signatures, payload \in Payloads : qube_webhook(signature, payload)
    \/ \E user_credentials \in UserLoginReqs : login(user_credentials)

SpecTickets == Init /\ [][NextTickets]_vars

\* The classifier's functions applied to every reply and every EmailCategory.
NextClassifier ==
    \/ \E llm \in LlmOutcomes : Classify(llm)
    \/ \E category \in EmailCategories : Escalate(category)

SpecClassifier == Init /\ [][NextClassifier]_vars

\* The email pipeline, the inbox scan and the Qube requests.
NextIO ==
    \/ \E request \in EmailRequests : HandleEmailStart(request)
    \/ \E llm \in MailLlmOutcomes : HandleEmailClassify(llm)
    \/ \E llm \in {None} \cup {Some(t) : t \in ResponseTexts} : HandleEmailGenerate(llm)
    \/ \E smtp_ok \in BOOLEAN : HandleEmailEscalate(smtp_ok)
    \/ \E smtp_ok \in BOOLEAN : HandleEmailReply(smtp_ok)
    \/ ScanStart
    \/ \E ok \in BOOLEAN : ScanConnect(ok)
    \/ \E ok \in BOOLEAN, inbox \in Inboxes : ScanSearch(ok, inbox)
    \/ \E ok \in BOOLEAN, parse_ok \in BOOLEAN : ScanFetch(ok, parse_ok)
    \/ \E llm \in MailLlmOutcomes : ScanClassify(llm)
    \/ \E smtp_ok \in BOOLEAN : ScanForward(smtp_ok)
    \/ \E ok \in BOOLEAN : ScanClose(ok)
    \/ \E ticket \in TicketObjects : SyncStart(ticket)
    \/ \E ok \in BOOLEAN : SyncToken(ok)
    \/ \E ok \in BOOLEAN, case_id \in CaseIds : SyncSend(ok, case_id)
    \/ \E request \in BulkUpdateRequests : BulkStart(request)
    \/ \E ok \in BOOLEAN : BulkToken(ok)

SpecIO == Init /\ [][NextIO]_vars

\* The one request of each kind the store-wide specifications are run with.
StoreProperties == {p \in PropertyCreateReqs : p.status = "available"}

StoreTickets == {t \in TicketCreateReqs : t.priority = "high"}

StoreAiOutcomes == {o \in AiOutcomes : o.policy_ok /\ o.llm # None}

\* Every handler that writes to the store, the Qube webhook and bulk update included.
NextStore ==
    \/ \E user \in Accounts : RegisterLookup(1, user)
    \/ RegisterCommit(1, 0)
    \/ \E current_user \in users, property \in StoreProperties :
          create_property(property, current_user)
    \/ \E current_user \in users, ticket \in MaintenanceTicketCreateReqs :
          create_ticket(ticket, current_user)
    \/ \E current_user \in users, ticket \in StoreTickets, commit_ok \in BOOLEAN :
          api_create_ticket_insert(ticket, current_user, commit_ok)
    \/ \E outcome \in StoreAiOutcomes, commit_ok \in BOOLEAN :
          api_create_ticket_respond(outcome, commit_ok)
    \/ \E payload \in {p \in Payloads : p.case = Some([case_id |-> "Q1", status |-> "closed"])} :
          qube_webhook(Some(jwt_encode(payload, QUBE_WEBHOOK_SECRET)), payload)
    \/ \E request \in BulkUpdateRequests : BulkStart(request)
    \/ \E ok \in BOOLEAN : BulkToken(ok)

SpecStore == Init /\ [][NextStore]_vars

\* The writing handlers of main.py and ticket_system.py together with the handlers
\* that read tickets and statistics.
NextReads ==
    \/ \E user \in Accounts : RegisterLookup(1, user)
    \/ RegisterCommit(1, 0)
    \/ \E current_user \in users, property \in StoreProperties :
          create_property(property, current_user)
    \/ \E current_user \in users, ticket \in MaintenanceTicketCreateReqs :
          create_ticket(ticket, current_user)
    \/ \E current_user \in users, ticket \in StoreTickets :
          api_create_ticket_insert(ticket, current_user, TRUE)
    \/ \E outcome \in StoreAiOutcomes : api_create_ticket_respond(outcome, TRUE)
    \/ \E current_user \in users : Read(get_tickets(current_user))
    \/ \E current_user \in users : Read(api_get_tickets(current_user))
    \/ \E current_user \in users, ticket_id \in TicketIds :
          Read(api_get_ticket(ticket_id, current_user))
    \/ \E current_user \in users : Read(get_admin_stats(current_user))

SpecReads == Init /\ [][NextReads]_vars

\* POST /api/tickets with every outcome of the AI response.
NextAi ==
    \/ \E user \in Accounts : RegisterLookup(1, user)
    \/ RegisterCommit(1, 0)
    \/ \E current_user \in users, ticket \in StoreTickets, commit_ok \in BOOLEAN :
          api_create_ticket_insert(ticket, current_user, commit_ok)
    \/ \E outcome \in AiOutcomesAll, commit_ok \in BOOLEAN :
          api_create_ticket_respond(outcome, commit_ok)
    \/ \E outcome \in AiOutcomesAll : Generate(outcome)

SpecAi == Init /\ [][NextAi]_vars

\* The notify_case_* functions called for stored and unsaved tickets.
NextNotify ==
    \/ \E user \in Accounts : RegisterLookup(1, user)
    \/ RegisterCommit(1, 0)
    \/ \E current_user \in users, ticket \in StoreTickets :
          api_create_ticket_insert(ticket, current_user, TRUE)
    \/ \E outcome \in StoreAiOutcomes : api_create_ticket_respond(outcome, TRUE)
    \/ \E fn \in NotifyFns, ticket \in tickets \cup UnsavedTickets : Notify(fn, ticket)
    \/ \E to_email \in Emails, smtp_ok \in BOOLEAN : SendEmail(to_email, smtp_ok)

SpecNotify == Init /\ [][NextNotify]_vars

(***************************************************************************)
(* Properties.                                                             *)
(***************************************************************************)
UserById(id) == CHOOSE u \in users : u.id = id

Fields(row, names) == [n \in names |-> row[n]]

\* C1: POST /login answers with an access token only if a user with the given email
\* is stored and the given password verifies against that user's stored hash;
\* otherwise it answers 401 "Incorrect email or password" with no token; and a login
\* changes no stored record.
C1_Verifies(req) ==
    \E u \in users :
        u.email = req.email /\ verify_password(req.password, u.hashed_password)

C1_LoginAnswer ==
    last.op = "login" =>
        IF C1_Verifies(last.req)
        THEN /\ last.status = 200
             /\ last.body = Some([access_token |-> [sub |-> last.req.email],
                                  token_type |-> "bearer"])
        ELSE /\ last.status = 401
             /\ last.detail = <<"Incorrect email or password">>
             /\ last.body = None

C1_LoginRejectsWrongPassword ==
    /\ []C1_LoginAnswer
    /\ [][last'.op = "login" => UNCHANGED <<users, properties, mtickets, tickets>>]_vars

\* C1 witness: a login with a wrong password for a stored user was answered 401.
C1_Witness ==
    /\ last.op = "login"
    /\ last.status = 401
    /\ \E u \in users : u.email = last.req.email

\* C2: POST /properties by a user whose role is not "admin" is answered 403 and
\* leaves the stored properties unchanged; every stored property was created by a
\* request of an admin user.
C2_Rejected ==
    (last.op = "create_property" /\ UserById(last.req.user).role # "admin") =>
        (last.status = 403 /\ last.body = None)

C2_CreatedByAdmin ==
    /\ Len(prop_by) = Len(properties)
    /\ \A i \in 1 .. Len(properties) : prop_by[i] = "admin"

C2_OnlyAdminCreatesProperty ==
    /\ [](C2_Rejected /\ C2_CreatedByAdmin)
    /\ [][(last'.op = "create_property" /\ UserById(last'.req.user).role # "admin")
            => properties' = properties]_vars

\* C2 witness: a tenant's POST /properties was answered 403 while an admin's property
\* is stored.
C2_Witness ==
    /\ last.op = "create_property"
    /\ last.status = 403
    /\ UserById(last.req.user).role = "tenant"
    /\ Len(properties) > 0

\* C3: when register_user, create_property or a create_ticket handler answers
\* successfully, the record it returns is stored with exactly the submitted field
\* values (plus the server-set owner and initial status for tickets), and a read by
\* an authorized user returns it; every stored record stays readable.
C3_Register ==
    (last.op = "register" /\ last.status = 200) =>
        LET new_user == last.body[1] IN
        /\ new_user \in users
        /\ Fields(new_user, {"email", "full_name", "role"})
             = Fields(last.req, {"email", "full_name", "role"})
        /\ verify_password(last.req.password, new_user.hashed_password)
        /\ ~ LoginRejected([email |-> last.req.email, password |-> last.req.password])

C3_Property ==
    (last.op = "create_property" /\ last.status = 200) =>
        LET db_property == last.body[1] IN
        /\ db_property.id \in 1 .. Len(properties)
        /\ properties[db_property.id] = db_property
        /\ Fields(db_property, DOMAIN last.req.property) = last.req.property

C3_MTicket ==
    (last.op = "create_ticket" /\ last.status = 200) =>
        LET db_ticket == last.body[1] IN
        /\ db_ticket \in mtickets
        /\ Fields(db_ticket, DOMAIN last.req.ticket) = last.req.ticket
        /\ db_ticket.user_id = last.req.user
        /\ db_ticket.status = "pending"

C3_Ticket ==
    (last.op = "api_create_ticket" /\ last.status = 200) =>
        LET db_ticket == last.body[1] IN
        /\ db_ticket \in tickets
        /\ Fields(db_ticket, DOMAIN last.req.ticket) = last.req.ticket
        /\ db_ticket.user_id = last.req.user
        /\ db_ticket.status = "open"

C3_Readable ==
    /\ \A i \in 1 .. Len(properties) : \A u \in users :
          \E j \in 1 .. Len(get_properties(0, 100, u).body[1]) :
             get_properties(0, 100, u).body[1][j] = properties[i]
    /\ \A t \in mtickets : \A u \in users :
          (u.id = t.user_id \/ u.role = "admin") => t \in get_tickets(u).body[1]
    /\ \A t \in tickets : \A u \in users :
          u.id = t.user_id =>
             /\ api_get_ticket(t.id, u) = Ok("api_get_ticket",
                                              [ticket_id |-> t.id, user |-> u.id], Some(t))
             /\ \E j \in 1 .. Len(api_get_tickets(u).body[1]) :
                   api_get_tickets(u).body[1][j] = t

C3_CreateReturnsPersisted ==
    C3_Register /\ C3_Property /\ C3_MTicket /\ C3_Ticket /\ C3_Readable

\* C3 witness: a support ticket was answered while a property and a maintenance
\* ticket created before it are stored.
C3_Witness ==
    /\ last.op = "api_create_ticket"
    /\ last.status = 200
    /\ Len(properties) > 0
    /\ mtickets # {}

\* C4: no two stored users have the same email, whatever the interleaving of
\* register requests.
C4_EmailUnique ==
    \A u \in users : \A v \in users : u.email = v.email => u = v

\* C4 witness: two registrations of one email raced; the second commit was refused.
C4_Witness ==
    /\ last.op = "register"
    /\ last.status = 500
    /\ \E u \in users : u.email = last.req.email

TryWrapped == {"api_create_ticket", "api_get_ticket", "qube_webhook"}

C8_Unverified(req) ==
    \/ req.signature = None
    \/ req.signature[1] # jwt_encode(req.payload, QUBE_WEBHOOK_SECRET)

C8_EndsAtVerification ==
    (last.op = "qube_webhook" /\ C8_Unverified(last.req)) =>
        /\ last.status = 500
        /\ last.detail \in {Str(HTTPException(401, <<"Missing signature">>)),
                            Str(HTTPException(401, <<"Invalid signature">>))}

C8_WebhookVerifiedBeforeActing ==
    /\ []C8_EndsAtVerification
    /\ [][(last'.op = "qube_webhook" /\ C8_Unverified(last'.req))
            => tickets' = tickets]_vars

\* C8 witness: a case.updated webhook signed with another key arrived while a ticket
\* is stored.
C8_Witness ==
    /\ last.op = "qube_webhook"
    /\ last.req.signature # None
    /\ C8_Unverified(last.req)
    /\ last.req.payload.event_type = "case.updated"
    /\ last.req.payload.case # None
    /\ tickets # {}

\* C6: for every LLM reply, a successful classify_email returns a category of the
\* fixed set: the first lower-cased word of the reply if it is in the set, otherwise
\* "general_inquiry"; department and priority are that category's table entries, and
\* the confidence is 0.8 whatever the reply says.
C6_FirstWord(text) == Split(Lower(text))[1]

C6_ClassifyEmail ==
    (pure.fn = "classify_email" /\ pure.result.ok) =>
        LET c == pure.result.value[1]
            first == C6_FirstWord(pure.arg[1])
        IN  /\ pure.arg # None
            /\ c.category \in {"complaint", "rent_issue", "service_request", "general_inquiry"}
            /\ c.category = IF first \in {"complaint", "rent_issue", "service_request",
                                           "general_inquiry"}
                            THEN first ELSE "general_inquiry"
            /\ c.department = CATEGORIES[c.category].department
            /\ c.priority = CATEGORIES[c.category].priority
            /\ c.confidence = 8

\* C6 witness: a reply whose first word is a category written in capitals, after
\* white space, was classified.
C6_Witness ==
    /\ pure.fn = "classify_email"
    /\ pure.result.ok
    /\ Len(pure.arg[1]) = 2
    /\ pure.arg[1][1] = Space
    /\ pure.arg[1][2] = "RENT_ISSUE"
    /\ pure.result.value[1].category = "rent_issue"

\* C7: should_escalate is true exactly when (priority is "high" and confidence > 0.7)
\* or confidence < 0.5, whatever the category name and the department.
C7_ShouldEscalate ==
    pure.fn = "should_escalate" =>
        pure.result = ((pure.arg.priority = "high" /\ pure.arg.confidence > 7)
                       \/ pure.arg.confidence < 5)

\* C7 witness: a high-priority category with confidence exactly 0.7 was not escalated.
C7_Witness ==
    /\ pure.fn = "should_escalate"
    /\ pure.arg.priority = "high"
    /\ pure.arg.confidence = 7
    /\ pure.result = FALSE


\* The three calls the scan makes for one message, in the order of the loop body.
ScanStages == <<"fetch", "classify_email", "forward_email">>

StageOf(site) == CHOOSE k \in DOMAIN ScanStages : ScanStages[k] = site

IsMessageCall(c) == \E k \in DOMAIN ScanStages : ScanStages[k] = c.site

MessageCalls == SelectSeq(calls, IsMessageCall)

Position(num) == CHOOSE k \in DOMAIN scan.msgs : scan.msgs[k] = num

CallOk(site, num) ==
    \E k \in DOMAIN MessageCalls :
        /\ MessageCalls[k].site = site
        /\ MessageCalls[k].arg = <<num>>
        /\ MessageCalls[k].ok

C9_Handled(num) == CallOk("classify_email", num) /\ CallOk("forward_email", num)

\* Calls are made message by message in the order of the search, and within a
\* message in the order fetch, classify, forward; none is made twice.
C9_InOrder ==
    \A p \in DOMAIN MessageCalls : \A q \in DOMAIN MessageCalls :
        p < q =>
            LET a == MessageCalls[p]
                b == MessageCalls[q]
            IN  \/ Position(a.arg[1]) < Position(b.arg[1])
                \/ a.arg[1] = b.arg[1] /\ StageOf(a.site) < StageOf(b.site)

\* Only messages of the search are handled, and a stage is reached only through
\* the success of the stage before it.
C9_StageByStage ==
    \A p \in DOMAIN MessageCalls :
        LET a == MessageCalls[p] IN
        /\ \E k \in DOMAIN scan.msgs : scan.msgs[k] = a.arg[1]
        /\ StageOf(a.site) > 1 => CallOk(ScanStages[StageOf(a.site) - 1], a.arg[1])

\* A failure skips only its message: every message the loop has passed was fetched.
C9_NoneLeftOut ==
    \A k \in DOMAIN scan.msgs :
        k < scan.i => \E p \in DOMAIN MessageCalls :
                         MessageCalls[p].site = "fetch" /\ MessageCalls[p].arg = <<scan.msgs[k]>>

\* The list holds, in the order of the search, the messages classified and
\* forwarded without error, and it is what a finished scan returns.
C9_Processed ==
    /\ [k \in DOMAIN scan.processed |-> scan.processed[k].id] = SelectSeq(scan.msgs, C9_Handled)
    /\ scan.pc = "done" =>
           /\ scan.i = Len(scan.msgs) + 1
           /\ last = Ok("run_email_scan", None, Some(scan.processed))

\* C9: the inbox scan is a sequential loop: each message the search returned is
\* fetched, classified and forwarded at most once, in the order of the search,
\* one message finished before the next starts; a failure skips only that
\* message; the returned list holds exactly the messages classified and
\* forwarded without error, in processing order.
C9_ScanSequential ==
    scan.pc # "idle" =>
        /\ C9_InOrder
        /\ C9_StageByStage
        /\ C9_NoneLeftOut
        /\ C9_Processed

\* A finished scan of two messages, returned by the search as 2 then 1, in which
\* the handling of message 2 failed and message 1 was forwarded.
C9_Witness ==
    /\ scan.pc = "done"
    /\ scan.msgs = <<2, 1>>
    /\ \E p \in DOMAIN calls : calls[p].site \in {"classify_email", "forward_email"}
                                /\ calls[p].arg = <<2>> /\ ~ calls[p].ok
    /\ Len(scan.processed) = 1
    /\ scan.processed[1].id = 1

\* Two calls are the same call when made from the same site with the same argument.
SameCall(a, b) == IF a.site = b.site THEN a.arg = b.arg ELSE FALSE

\* C10: nothing retries: within one request or one inbox scan every call to an
\* external service (LLM, SMTP, IMAP, Qube) is made at most once, and a call
\* that failed is not issued again.
C10_NoRetry ==
    \A p \in DOMAIN calls : \A q \in DOMAIN calls :
        p < q => ~ SameCall(calls[p], calls[q])

\* A call failed and the same scan went on to call the same service for the
\* next message; or a request ended on its failed call.
C10_Witness ==
    /\ scan.pc = "done"
    /\ \E p \in DOMAIN calls : \E q \in DOMAIN calls :
          /\ p < q
          /\ ~ calls[p].ok
          /\ calls[q].site = calls[p].site
          /\ calls[q].arg # calls[p].arg

\* The call sites of the calls logged so far, in the order they were made.
Sites == [p \in DOMAIN calls |-> calls[p].site]

IsPrefix(a, b) == Len(a) <= Len(b) /\ \A p \in DOMAIN a : a[p] = b[p]

\* The send_email calls of the request in progress with the given subject prefix.
Sends(kind) == {p \in DOMAIN calls : calls[p].site = "send_email" /\ calls[p].arg[2] = kind}

\* The calls of a request: classify, generate, then one or two sends, of which an
\* escalation comes first.
C11_Order ==
    /\ \/ IsPrefix(Sites, <<"classify_email", "generate_email_response", "send_email">>)
       \/ Sites = <<"classify_email", "generate_email_response", "send_email", "send_email">>
    /\ \A e \in Sends("Escalated: ") : e = 3
    /\ \A r \in Sends("Re: ") :
          /\ r = Len(calls)
          /\ calls[1].ok /\ calls[2].ok
          /\ mail.should_escalate => r = 4 /\ calls[3].ok /\ calls[3].arg[2] = "Escalated: "
          /\ calls[r].arg[1] = mail.req.sender_email

\* A step that failed is the last step made, and the request ends with an error.
C11_FailureEnds ==
    /\ \A p \in DOMAIN calls : ~ calls[p].ok => p = Len(calls) /\ mail.pc = "failed"
    /\ mail.pc = "failed" =>
          /\ last.done /\ last.status = 500 /\ last.op = "handle_email"
          /\ ~ calls[Len(calls)].ok \/ Sites = <<"classify_email">>
    /\ mail.pc = "done" =>
          /\ last.done /\ last.status = 200
          /\ \A p \in DOMAIN calls : calls[p].ok
          /\ Sends("Re: ") # {}

\* C11: handle_email runs classify, generate reply, escalate, send in that order:
\* the reply goes to the sender only after classification and generation both
\* succeeded, an escalation email is sent before the reply, and a failure in any
\* step prevents every later step and ends the request with an error.
C11_PipelineOrder ==
    mail.pc # "idle" => C11_Order /\ C11_FailureEnds

\* An escalated request whose reply was sent, and so made all four calls.
C11_Witness ==
    /\ mail.pc = "done"
    /\ Len(calls) = 4
    /\ Sends("Escalated: ") = {3}
    /\ Sends("Re: ") = {4}

\* The categories get_department_email has no entry for.
UnknownCategories == DOMAIN department_routes \ DOMAIN CATEGORIES

\* C18: in a successful handle_email an escalation email is sent exactly when
\* should_escalate holds for the classification, to the category's department
\* address (support@propertypro.com for an unknown category), the escalated flag
\* says whether it was sent, and exactly one reply goes to the sender.
C18_Escalation ==
    /\ \A c \in UnknownCategories : get_department_email(c) = "support@propertypro.com"
    /\ mail.pc = "done" =>
          LET category == last.body[1].category
              escalations == Sends("Escalated: ")
          IN  /\ escalations # {} <=> (category.priority = "high" /\ category.confidence > 7)
                                       \/ category.confidence < 5
              /\ Cardinality(escalations) <= 1
              /\ \A e \in escalations :
                    /\ calls[e].arg[1] = get_department_email(category.category)
                    /\ calls[e].arg[1] \in {"customer-service@propertypro.com",
                                             "finance@propertypro.com"}
              /\ last.body[1].escalated = (escalations # {})
              /\ Cardinality({p \in DOMAIN calls :
                                 /\ calls[p].site = "send_email"
                                 /\ calls[p].arg[1] = mail.req.sender_email}) = 1
              /\ Cardinality(Sends("Re: ")) = 1

\* A request classified as a complaint, escalated to customer service and answered.
C18_Witness ==
    /\ mail.pc = "done"
    /\ last.body[1].category.category = "complaint"
    /\ last.body[1].escalated
    /\ \E e \in Sends("Escalated: ") : calls[e].arg[1] = "customer-service@propertypro.com"

\* A request that needed no escalation and was answered with one email.
C18_WitnessPlain ==
    /\ mail.pc = "done"
    /\ ~ last.body[1].escalated
    /\ Len(calls) = 3

\* The method follows the case id the object carries, after the token call; a
\* successful sync leaves the returned case id on the object.
C15_CreateOrUpdate ==
    /\ \A p \in DOMAIN calls :
          calls[p].site \in {"post_case", "put_case"} =>
              /\ p = 2 /\ calls[1].site = "get_qube_token" /\ calls[1].ok
              /\ calls[p].site = "post_case" => sync.pc = "done" \/ sync.ticket.qube_case_id = None
              /\ calls[p].site = "put_case" => sync.ticket.qube_case_id # None
    /\ sync.pc = "done" /\ last.op = "sync_ticket_to_qube" =>
          Some(sync.ticket.qube_case_id[1]) = last.body

\* C15: Qube sync is create-or-update: a token first, then a POST only for a
\* ticket without a case id and a PUT otherwise; after a successful sync the
\* ticket carries the case id, so syncing one ticket any number of times, within
\* a request or across requests, creates at most one Qube case for it.
C15_AtMostOneCase ==
    /\ C15_CreateOrUpdate
    /\ \A t \in {o.id : o \in TicketObjects} : Cardinality(CasesOf(t)) <= 1

\* The tickets a Qube case id stands for: those the case was created for.
TicketsOfCase(case_id) == {t \in tickets : [case_id |-> case_id, ticket |-> t.id] \in qube}

C19_Signed(req) ==
    /\ ~ SignatureMissing(req.signature)
    /\ ~ SignatureInvalid(req.signature, req.payload)
    /\ req.payload.case # None

\* C19: a correctly signed webhook with event_type case.updated sets the status
\* of the ticket whose Qube case id is the payload's case_id to the payload's
\* status and changes nothing else of the store; a correctly signed webhook with
\* another event type, or with a case_id matching no ticket, changes no ticket
\* and still answers success.
C19_SignedWebhookUpdates ==
    [][(last'.op = "qube_webhook" /\ C19_Signed(last'.req)) =>
          LET payload == last'.req.payload
              found == IF payload.event_type = "case.updated"
                       THEN TicketsOfCase(payload.case[1].case_id) ELSE {}
          IN  /\ last'.status = 200
              /\ tickets' = (tickets \ found)
                            \cup {[t EXCEPT !.status = payload.case[1].status] : t \in found}
              /\ UNCHANGED <<users, properties, mtickets>>]_vars

\* The tickets a bulk update request names.
C20_Matching(request) ==
    UNION {TicketsOfCase(case_id) : case_id \in request.case_ids}

C20_Updated(t, request) ==
    [t EXCEPT !.status = IF request.status # None THEN request.status[1] ELSE @,
              !.priority = IF request.priority # None THEN request.priority[1] ELSE @]

\* C20: a successful bulk_update_cases changes exactly the tickets whose Qube
\* case id is in request.case_ids: each gets the status and the priority the
\* request gives, a field not given keeps its value, every other ticket is
\* unchanged, and updated_count is the number of matching tickets.  A request
\* that obtained its token and matches no ticket needs no further call: it is
\* a successful update of no ticket.
C20_BulkUpdates ==
    [][(sync.pc = "bulk_token" /\ sync'.pc # "bulk_token" /\ calls'[Len(calls')].ok) =>
          LET found == C20_Matching(sync.request) IN
          /\ found = {} => last'.status = 200
          /\ last'.status = 200 =>
                /\ tickets' = (tickets \ found)
                              \cup {C20_Updated(t, sync.request) : t \in found}
                /\ last'.body = Some([message |-> "Bulk update successful",
                                      updated_count |-> Cardinality(found)])]_vars

Ids(rows) == {row.id : row \in rows}

\* C12: there is no deletion: along every sequence of operations the stored
\* users, properties and tickets only grow; no operation removes a stored
\* record, and a failed operation removes none either.
C12_NoDeletion ==
    [][/\ users \subseteq users'
       /\ IsPrefix(properties, properties')
       /\ mtickets \subseteq mtickets'
       /\ Ids(tickets) \subseteq Ids(tickets')
       /\ (last'.done /\ last'.status # 200) =>
              UNCHANGED <<users, properties, mtickets, tickets>>]_vars

\* A request failed while users, a property and tickets of both kinds were stored.
C12_Witness ==
    /\ last.done /\ last.status = 500
    /\ last.op \in {"api_create_ticket", "bulk_update_cases", "qube_webhook"}
    /\ Cardinality(users) = 2
    /\ Len(properties) = 1
    /\ mtickets # {}
    /\ tickets # {}

\* C13: ticket foreign keys always resolve: each stored ticket's user_id is the id
\* of a stored user and each stored maintenance ticket's property_id the id of a
\* stored property, for every property_id a client may submit to POST /tickets.
C13_ForeignKeysResolve ==
    /\ \A t \in tickets \cup mtickets : t.user_id \in Ids(users)
    /\ \A t \in mtickets : t.property_id \in {properties[i].id : i \in DOMAIN properties}

\* The part of C13 about the owner: user_id is always the id of a stored user.
C13_OwnerResolves ==
    \A t \in tickets \cup mtickets : t.user_id \in Ids(users)

\* C14: every ticket starts in a fixed initial status owned by its creator: a
\* maintenance ticket of POST /tickets is stored with status pending, a support
\* ticket of POST /api/tickets with status open, each with the authenticated
\* user's id as user_id, whatever the request body contains.
C14_InitialStatus ==
    [][/\ \A t \in mtickets' \ mtickets :
             /\ last'.op = "create_ticket"
             /\ t.status = "pending"
             /\ t.user_id = last'.req.user
             /\ Fields(t, DOMAIN last'.req.ticket) = last'.req.ticket
       /\ \A t \in tickets' :
             IF t.id \notin Ids(tickets)
             THEN /\ last'.op = "api_create_ticket"
                  /\ t.status = "open"
                  /\ t.user_id = last'.req.user
                  /\ Fields(t, DOMAIN last'.req.ticket) = last'.req.ticket
             ELSE \A old \in tickets :
                      old.id = t.id => t.status = old.status /\ t.user_id = old.user_id]_vars

\* Tickets of both kinds stored by the tenant, the support ticket with priority high.
C14_Witness ==
    /\ \E t \in mtickets : UserById(t.user_id).role = "tenant" /\ t.status = "pending"
    /\ \E t \in tickets : /\ UserById(t.user_id).role = "tenant"
                           /\ t.status = "open"
                           /\ t.priority = "high"
                           /\ t.ai_response # None

Range(seq) == {seq[i] : i \in DOMAIN seq}

\* C16: ticket visibility follows ownership: GET /tickets returns every
\* maintenance ticket to an admin and to any other user exactly those whose
\* user_id is the user's id; GET /api/tickets returns exactly the support tickets
\* whose user_id is the current user's id; no non-admin user receives a ticket
\* owned by another user.
C16_Visibility ==
    /\ last.op = "get_tickets" =>
          LET current_user == UserById(last.req.user) IN
          /\ last.status = 200
          /\ current_user.role = "admin" => last.body = Some(mtickets)
          /\ current_user.role # "admin" =>
                last.body = Some({t \in mtickets : t.user_id = current_user.id})
    /\ last.op = "api_get_tickets" =>
          /\ last.status = 200
          /\ Range(last.body[1]) = {t \in tickets : t.user_id = last.req.user}
          /\ Len(last.body[1]) = Cardinality(Range(last.body[1]))
    /\ (last.op = "api_get_ticket" /\ last.status = 200) =>
          /\ last.body[1] \in tickets
          /\ last.body[1].id = last.req.ticket_id
          /\ last.body[1].user_id = last.req.user

\* The tenant read the maintenance tickets while the only one stored was the
\* admin's, and received none.
C16_Witness ==
    /\ last.op = "get_tickets"
    /\ UserById(last.req.user).role = "tenant"
    /\ \E t \in mtickets : t.user_id # last.req.user
    /\ last.body = Some({})

\* C17: admin statistics are admin-only and exact: GET /admin/stats answers 403
\* to every user whose role is not admin, and gives an admin the number of stored
\* properties, of stored users with role tenant and of stored maintenance
\* tickets with status pending.
C17_AdminStats ==
    last.op = "get_admin_stats" =>
        IF UserById(last.req.user).role # "admin"
        THEN last.status = 403 /\ last.body = None
        ELSE /\ last.status = 200
             /\ last.body[1].total_properties = Len(properties)
             /\ last.body[1].total_tenants = Cardinality({u \in users : u.role = "tenant"})
             /\ last.body[1].pending_tickets =
                    Cardinality({t \in mtickets : t.status = "pending"})

\* An admin read the statistics of a store of two users, one of them a tenant, one
\* property and one pending ticket.
C17_Witness ==
    /\ last.op = "get_admin_stats"
    /\ last.status = 200
    /\ Cardinality(users) = 2
    /\ last.body = Some([total_properties |-> 1, total_tenants |-> 1, pending_tickets |-> 1])

\* A tenant asked for the statistics and was refused.
C17_WitnessRefused ==
    /\ last.op = "get_admin_stats"
    /\ last.status = 403

\* C22: a rejection raised inside a handler reaches the caller with its own
\* status: a webhook without signature is answered 401 Missing signature, one
\* with a mismatching signature 401 Invalid signature, and GET
\* /api/tickets/{ticket_id} for a ticket that does not exist or belongs to
\* another user 404 Ticket not found.
C22_OwnStatus ==
    /\ (last.op = "qube_webhook" /\ SignatureMissing(last.req.signature)) =>
          last.status = 401 /\ last.detail = <<"Missing signature">>
    /\ (/\ last.op = "qube_webhook"
        /\ ~ SignatureMissing(last.req.signature)
        /\ SignatureInvalid(last.req.signature, last.req.payload)) =>
          last.status = 401 /\ last.detail = <<"Invalid signature">>
    /\ (/\ last.op = "api_get_ticket"
        /\ ~ \E t \in tickets : t.id = last.req.ticket_id /\ t.user_id = last.req.user) =>
          last.status = 404 /\ last.detail = <<"Ticket not found">>

\* C24: every register request whose email is already stored when it completes,
\* a request that lost a race with a concurrent registration of the same email
\* included, is rejected with 400 Email already registered and leaves the stored
\* users unchanged.
C24_DuplicateRejected ==
    [][(last'.op = "register" /\ last'.done /\ UserByEmail(last'.req.email) # {}) =>
          /\ last'.status = 400
          /\ last'.detail = <<"Email already registered">>
          /\ users' = users]_vars

\* generate_ai_response returns the reply of the LLM when the policy search and the
\* LLM call both succeed and the fixed message otherwise; it raises in no case.
C23_NeverRaises ==
    pure.fn = "generate_ai_response" =>
        pure.result = IF pure.arg.policy_ok /\ pure.arg.llm # None
                      THEN pure.arg.llm[1]
                      ELSE "Thank you for your ticket. Our team will review it shortly."

\* The ticket is in the store, without AI response, while the response is generated.
C23_CommittedFirst ==
    inflight # None => \E t \in tickets : t.id = inflight[1] /\ t.ai_response = None

\* C23 as stated: support-ticket creation survives an AI failure:
\* generate_ai_response never raises and returns the fixed message when the
\* policy search or the LLM call fails, so every ticket returned by a successful
\* POST /api/tickets has a non-empty ai_response, and the ticket is committed
\* before the AI response is generated.
C23_Original ==
    /\ C23_NeverRaises
    /\ C23_CommittedFirst
    /\ (last.op = "api_create_ticket" /\ last.status = 200) =>
          /\ last.body[1].ai_response # None
          /\ last.body[1].ai_response[1] # ""

\* C23 as amended: as stated, except that the ai_response of a returned ticket
\* is set, to the fixed message or to the reply of the LLM as it came, which is
\* empty when the LLM replied with an empty text.
C23_Amended ==
    /\ C23_NeverRaises
    /\ C23_CommittedFirst
    /\ (last.op = "api_create_ticket" /\ last.status = 200) =>
          /\ last.body[1] \in tickets
          /\ last.body[1].ai_response # None
          /\ last.body[1].ai_response[1] \in
                AiReplies \cup {"Thank you for your ticket. Our team will review it shortly."}

\* A ticket was returned with the fixed message: its AI response had failed.
C23_Witness ==
    /\ last.op = "api_create_ticket"
    /\ last.status = 200
    /\ last.body[1].ai_response =
          Some("Thank you for your ticket. Our team will review it shortly.")
    /\ pure.fn = "generate_ai_response"
    /\ pure.arg.llm = None

OwnerOf(ticket) ==
    IF HasAttr(ticket, "property") /\ HasAttr(ticket.property, "owner_id")
    THEN {u \in users : u.id = ticket.property.owner_id}
    ELSE {}

TenantOf(ticket) == {u \in users : u.id = ticket.user_id}

\* A call of send_email never raises, whether the send failed or not.
C25_SendSwallowed ==
    pure.fn = "send_email" => pure.result.raised = None

\* A call of a notify_case_* function adds two tasks or none, and none when the
\* tenant or the property owner is missing.
C25_TwoOrNone ==
    pure.fn \in NotifyFns =>
        /\ Len(pure.result.tasks) \in {0, 2}
        /\ (TenantOf(pure.arg) = {} \/ OwnerOf(pure.arg) = {}) => pure.result.tasks = <<>>

\* C25: case notifications go to both parties or to nobody: a call of
\* notify_case_created, notify_case_updated or notify_case_closed completes,
\* having added nothing when the tenant or the property owner is missing and
\* otherwise exactly two send tasks, to the tenant first and then to the
\* property owner; and send_email swallows a failing send.
C25_BothOrNobody ==
    /\ C25_SendSwallowed
    /\ pure.fn \in NotifyFns =>
          /\ pure.result.raised = None
          /\ IF TenantOf(pure.arg) = {} \/ OwnerOf(pure.arg) = {}
             THEN pure.result.tasks = <<>>
             ELSE /\ Len(pure.result.tasks) = 2
                  /\ pure.result.tasks[1].to_email = First(TenantOf(pure.arg)).email
                  /\ pure.result.tasks[2].to_email = First(OwnerOf(pure.arg)).email

\* The tasks a notify_case_* function adds are never the two the claim names:
\* no call adds a task at all.
C25_NeverNotifies ==
    pure.fn \in NotifyFns => pure.result.tasks = <<>>

====
